---- MODULE Spec2Model ----
(***************************************************************************)
(* Model of src/app.py: the Flask handlers register_voter, cast_vote,      *)
(* get_candidates and get_statistics over the Cassandra tables voters,     *)
(* votes and candidates.                                                   *)
(*                                                                         *)
(* Each handler is cut at its session.execute calls: one action per        *)
(* storage statement, so that the statements of concurrent requests        *)
(* interleave freely (the code takes no lock and uses no conditional       *)
(* write).  Every statement is applied atomically to a single copy of the  *)
(* table, which is the strongest behaviour the store can offer.  A         *)
(* statement may also raise (the handlers catch Exception); a statement    *)
(* that raises has not been applied.                                       *)
(***************************************************************************)
EXTENDS Integers, FiniteSets, Sequences, TLC

\* ------------------------------------------------------------------ bounds
\* Number of voter identities register_voter may mint.
MaxVoters == 1
\* Number of cast_vote requests (each request slot is used once).
MaxReqs == 2

\* ------------------------------------------------------------- identifiers
\* uuid4() in register_voter: the ids it mints, in order.
VoterIds == 1..MaxVoters
\* A well-formed UUID a client sends that register_voter never minted.
Stranger == 0
\* A voter_id / candidate_id string uuid.UUID() rejects (or a missing field).
Malformed == -2
\* A local variable of the handler that was never assigned.
NoId == -1
\* Every key a voters row can have.
AllVoterIds == VoterIds \cup {Stranger}

\* The rows of the candidates table (no handler writes it: seeded outside).
candidates == {1}
\* A well-formed candidate UUID that is in no row of candidates.
UnknownCandidate == 2
CandidateInputs == candidates \cup {UnknownCandidate, Malformed}

\* The cast_vote requests.
Reqs == 1..MaxReqs

\* Python None / a CQL null column.
None == "None"
\* JSON bodies posted to /api/voters: all fields given; an empty name and a
\* missing email (data.get gives None).
RegisterInputs ==
    { [voter_name |-> "a", email |-> "a@x", phone |-> "1"],
      [voter_name |-> "",  email |-> None,  phone |-> "1"] }

\* How a session.execute call can end: it returns, or it raises.
Outcomes == {"ok", "error"}

\* The error texts of the 400 responses.
ErrAlreadyVoted == "Voter has already voted"
ErrBadUUID == "badly formed hexadecimal UUID string"
ErrStorage == "storage error"

VARIABLES
    voters,     \* table voters: voter_id -> row (present = FALSE: no row)
    votes,      \* table votes: set of rows
    req,        \* the cast_vote requests: position, locals, response
    stats,      \* the get_statistics request in flight: position, locals
    last        \* the response sent by the step just taken (register_voter,
                \* get_candidates, get_statistics), NoResponse if it sent none

vars == <<voters, votes, req, stats, last>>

\* No row under this key.
NoRow == [present |-> FALSE, voter_name |-> None, email |-> None,
          phone |-> None, has_voted |-> FALSE]

\* A cast_vote request that has not been received yet.
IdleReq == [pc |-> "idle", voter_id |-> NoId, candidate_id |-> NoId,
            vote_id |-> NoId, status |-> 0, error |-> ""]

\* No get_statistics request in flight.
IdleStats == [pc |-> "idle", total_votes |-> 0]

NoResponse == [op |-> "none", status |-> 0]

Init ==
    /\ voters = [v \in AllVoterIds |-> NoRow]
    /\ votes = {}
    /\ req = [r \in Reqs |-> IdleReq]
    /\ stats = IdleStats
    /\ last = NoResponse

\* ------------------------------------------------------------ CQL statements
\* The insert with the wrong literal: has_voted = True.
InsertVoter_Voted(tbl, id, data) ==
    [tbl EXCEPT ![id] = [present |-> TRUE, voter_name |-> data.voter_name,
                         email |-> data.email, phone |-> data.phone,
                         has_voted |-> TRUE]]

\* INSERT INTO voters (voter_id, voter_name, email, phone, has_voted, ...)
InsertVoter(tbl, id, data) ==
    [tbl EXCEPT ![id] = [present |-> TRUE, voter_name |-> data.voter_name,
                         email |-> data.email, phone |-> data.phone,
                         has_voted |-> FALSE]]

\* SELECT has_voted FROM voters WHERE voter_id = id: the rows returned.
SelectHasVoted(tbl, id) ==
    IF tbl[id].present THEN <<tbl[id].has_voted>> ELSE <<>>

\* The test written the wrong way round: `result and not result[0].has_voted`.
AlreadyVoted_Negated(result) == Len(result) > 0 /\ ~result[1]

\* `result and result[0].has_voted`
AlreadyVoted(result) == Len(result) > 0 /\ result[1]

\* The table keyed by the voter: PRIMARY KEY (voter_id), so that an INSERT
\* for a voter who has a row replaces that row.
InsertVote_KeyedByVoter(tbl, vote_id, voter_id, candidate_id) ==
    {row \in tbl : row.voter_id # voter_id}
        \cup {[vote_id |-> vote_id, voter_id |-> voter_id,
                candidate_id |-> candidate_id]}

\* The values bound in the wrong order: (vote_id, candidate_id, voter_id).
InsertVote_Swapped(tbl, vote_id, voter_id, candidate_id) ==
    tbl \cup {[vote_id |-> vote_id, voter_id |-> candidate_id,
               candidate_id |-> voter_id]}

\* INSERT INTO votes (vote_id, voter_id, candidate_id, ...)
InsertVote(tbl, vote_id, voter_id, candidate_id) ==
    tbl \cup {[vote_id |-> vote_id, voter_id |-> voter_id,
               candidate_id |-> candidate_id]}

\* The statement with the wrong literal: UPDATE voters SET has_voted = false.
UpdateHasVoted_False(tbl, id) ==
    [tbl EXCEPT ![id] = [@ EXCEPT !.present = TRUE, !.has_voted = FALSE]]

\* UPDATE voters SET has_voted = true, voted_at = .. WHERE voter_id = id.
\* A CQL UPDATE is an upsert: with no row under id it creates one, whose
\* other columns are null.
UpdateHasVoted(tbl, id) ==
    [tbl EXCEPT ![id] = [@ EXCEPT !.present = TRUE, !.has_voted = TRUE]]

\* The wrong aggregate: SELECT COUNT(DISTINCT voter_id) FROM votes.
CountVotes_DistinctVoters(tbl) == Cardinality({row.voter_id : row \in tbl})

\* SELECT COUNT(*) FROM votes
CountVotes(tbl) == Cardinality(tbl)

\* SELECT COUNT(*) FROM voters
CountVoters(tbl) == Cardinality({v \in AllVoterIds : tbl[v].present})

\* What a client may send as voter_id: an id register_voter has minted, a
\* UUID it has not, or a string that is no UUID.
VoterInputs == {v \in VoterIds : voters[v].present} \cup {Stranger, Malformed}

\* uuid.uuid4() in register_voter: an id no row has yet.
FreshVoterIds == {v \in VoterIds : ~voters[v].present}
NewVoterId == CHOOSE v \in FreshVoterIds : \A w \in FreshVoterIds : v <= w

\* uuid.uuid4() in cast_vote: one fresh vote_id per request.
NewVoteId(r) == r

\* ------------------------------------------------------------ register_voter
\* The handler under a lock it shares with cast_vote: it waits while a
\* cast_vote request is between its SELECT and its response.
register_voter_Locked ==
    /\ \A r \in Reqs : req[r].pc \notin {"insert", "update"}
    /\ FreshVoterIds # {}
    /\ \E data \in RegisterInputs, outcome \in Outcomes :
        LET voter_id == NewVoterId IN
        /\ voters' = IF outcome = "ok"
                     THEN InsertVoter(voters, voter_id, data)
                     ELSE voters
        /\ last' = IF outcome = "ok"
                   THEN [op |-> "register", status |-> 201,
                         voter_id |-> voter_id]
                   ELSE [op |-> "register", status |-> 400,
                         error |-> ErrStorage]
    /\ UNCHANGED <<votes, req, stats>>

\* Lines 124-147: mint voter_id, INSERT INTO voters, respond.  Nothing in
\* the handler looks at the fields of the body.
register_voter ==
    /\ FreshVoterIds # {}
    /\ \E data \in RegisterInputs, outcome \in Outcomes :
        LET voter_id == NewVoterId IN
        /\ voters' = IF outcome = "ok"
                     THEN InsertVoter(voters, voter_id, data)
                     ELSE voters
        /\ last' = IF outcome = "ok"
                   THEN [op |-> "register", status |-> 201,
                         voter_id |-> voter_id]
                   ELSE [op |-> "register", status |-> 400,
                         error |-> ErrStorage]
    /\ UNCHANGED <<votes, req, stats>>

\* ----------------------------------------------------------------- cast_vote
\* The response of request r.
Respond(r, status, error) ==
    [req EXCEPT ![r].pc = "done", ![r].status = status, ![r].error = error]

\* The requests are received in the order of their numbers (request r is the
\* r-th to be received); they then run concurrently.
NextToArrive(r) == IF r = 1 THEN TRUE ELSE req[r - 1].pc # "idle"

\* Lines 153-156: uuid.UUID() raises on a malformed id: the except clause
\* answers 400 and no statement has run.
cast_vote_parse_error(r) ==
    /\ req[r].pc = "idle"
    /\ NextToArrive(r)
    /\ \E v \in VoterInputs, c \in CandidateInputs :
        /\ v = Malformed \/ c = Malformed
        /\ req' = Respond(r, 400, ErrBadUUID)
    /\ last' = NoResponse
    /\ UNCHANGED <<voters, votes, stats>>

\* Lines 153-163: parse the body, mint vote_id, SELECT has_voted, test it.
cast_vote_select(r) ==
    /\ req[r].pc = "idle"
    /\ NextToArrive(r)
    /\ \E v \in VoterInputs, c \in CandidateInputs, outcome \in Outcomes :
        LET started == [req EXCEPT ![r].voter_id = v,
                                   ![r].candidate_id = c,
                                   ![r].vote_id = NewVoteId(r)]
        IN  /\ v # Malformed /\ c # Malformed
            /\ req' = IF outcome = "error"
                      THEN [started EXCEPT ![r].pc = "done",
                                           ![r].status = 400,
                                           ![r].error = ErrStorage]
                      ELSE IF AlreadyVoted(SelectHasVoted(voters, v))
                      THEN [started EXCEPT ![r].pc = "done",
                                           ![r].status = 400,
                                           ![r].error = ErrAlreadyVoted]
                      ELSE [started EXCEPT ![r].pc = "insert"]
    /\ last' = NoResponse
    /\ UNCHANGED <<voters, votes, stats>>

\* Lines 165-177: INSERT INTO votes.
cast_vote_insert(r) ==
    /\ req[r].pc = "insert"
    /\ \E outcome \in Outcomes :
        /\ votes' = IF outcome = "ok"
                    THEN InsertVote(votes, req[r].vote_id, req[r].voter_id,
                                    req[r].candidate_id)
                    ELSE votes
        /\ req' = IF outcome = "ok"
                  THEN [req EXCEPT ![r].pc = "update"]
                  ELSE Respond(r, 400, ErrStorage)
    /\ last' = NoResponse
    /\ UNCHANGED <<voters, stats>>

\* Lines 179-186: UPDATE voters SET has_voted = true, then the response.
cast_vote_update(r) ==
    /\ req[r].pc = "update"
    /\ \E outcome \in Outcomes :
        /\ voters' = IF outcome = "ok"
                     THEN UpdateHasVoted(voters, req[r].voter_id)
                     ELSE voters
        /\ req' = IF outcome = "ok"
                  THEN Respond(r, 201, "")
                  ELSE Respond(r, 400, ErrStorage)
    /\ last' = NoResponse
    /\ UNCHANGED <<votes, stats>>

\* ------------------------------------------------------------ get_candidates
\* Lines 189-207: SELECT * FROM candidates, then the response.
get_candidates ==
    /\ \E outcome \in Outcomes :
        /\ last' = IF outcome = "ok"
                   THEN [op |-> "candidates", status |-> 200,
                         candidates |-> candidates]
                   ELSE [op |-> "candidates", status |-> 400,
                         error |-> ErrStorage]
    /\ UNCHANGED <<voters, votes, req, stats>>

\* ------------------------------------------------------------ get_statistics
\* The 400 response of get_statistics.
StatsFailed == [op |-> "statistics", status |-> 400, error |-> ErrStorage]

\* Line 216: SELECT COUNT(*) FROM votes.
get_statistics_votes ==
    /\ stats.pc = "idle"
    /\ \E outcome \in Outcomes :
        /\ stats' = IF outcome = "ok"
                    THEN [pc |-> "voters", total_votes |-> CountVotes(votes)]
                    ELSE IdleStats
        /\ last' = IF outcome = "ok" THEN NoResponse ELSE StatsFailed
    /\ UNCHANGED <<voters, votes, req>>

\* Lines 217-222: SELECT COUNT(*) FROM voters, then the response.
get_statistics_voters ==
    /\ stats.pc = "voters"
    /\ \E outcome \in Outcomes :
        /\ last' = IF outcome = "ok"
                   THEN [op |-> "statistics", status |-> 200,
                         total_votes |-> stats.total_votes,
                         total_voters |-> CountVoters(voters)]
                   ELSE StatsFailed
    /\ stats' = IdleStats
    /\ UNCHANGED <<voters, votes, req>>

Next ==
    \/ register_voter
    \/ \E r \in Reqs : cast_vote_parse_error(r)
    \/ \E r \in Reqs : cast_vote_select(r)
    \/ \E r \in Reqs : cast_vote_insert(r)
    \/ \E r \in Reqs : cast_vote_update(r)
    \/ get_candidates
    \/ get_statistics_votes
    \/ get_statistics_voters

Spec == Init /\ [][Next]_vars

\* ------------------------------------------------------------------ helpers
\* Request r has been received and has not responded yet.
InFlight(r) == req[r].pc \in {"insert", "update"}

\* No cast_vote request is in flight (register_voter is a single step).
Quiescent == \A r \in Reqs : ~InFlight(r)

\* The vote rows that carry voter_id v.
VotesOf(v) == {row \in votes : row.voter_id = v}

\* The voters register_voter has created.
Registered == {v \in VoterIds : voters[v].present}

\* Request r has parsed the two ids of its body (lines 154-155).
Parsed(r) == req[r].voter_id # NoId

\* No statement of a cast_vote request has raised.
NoStorageError == \A r \in Reqs : req[r].error # ErrStorage

\* -------------------------------------------------------------------- claims
\* C1: in every reachable state there is at most one row of votes per
\* voter_id, however the steps of concurrent cast_vote requests interleave.
\* Stated for the registered voters only, which is enough to refute it.
C1_AtMostOneVotePerVoter ==
    \A v \in Registered : Cardinality(VotesOf(v)) <= 1

\* C2: when two or more cast_vote requests for the same registered voter
\* have all completed (none of them stopped by a storage error), exactly one
\* has returned 201 and every other one the rejection "already voted".
C2_ExactlyOneWinner ==
    \A v \in Registered :
        LET racers == {r \in Reqs : req[r].voter_id = v} IN
        (/\ Cardinality(racers) >= 2
         /\ \A r \in racers : req[r].pc = "done" /\ req[r].error # ErrStorage)
        => /\ Cardinality({r \in racers : req[r].status = 201}) = 1
           /\ \A r \in racers : req[r].status # 201 =>
                 req[r].status = 400 /\ req[r].error = ErrAlreadyVoted

\* C3: for every voter row, has_voted is true iff exactly one row of votes
\* carries its voter_id.  Stated where it is weakest: between operations
\* (no request in flight) and when no statement has raised.
C3_HasVotedIffOneVote ==
    (Quiescent /\ NoStorageError) =>
        \A v \in Registered :
            voters[v].has_voted <=> (Cardinality(VotesOf(v)) = 1)

\* C4: a cast_vote request whose voter_id has no row in voters inserts no
\* row into votes and ends with a 400 (VoterNotFound).
C4_UnknownVoterRejected ==
    \A r \in Reqs :
        (Parsed(r) /\ ~voters[req[r].voter_id].present) =>
            /\ \A row \in votes : row.vote_id # req[r].vote_id
            /\ req[r].pc = "done" => req[r].status = 400

\* C5: a cast_vote request of a registered voter that names a candidate_id
\* that is not in candidates writes no vote row and does not succeed
\* (so it never reaches the UPDATE that sets has_voted).
C5_UnknownCandidateRejected ==
    \A r \in Reqs :
        (Parsed(r) /\ req[r].voter_id \in Registered
                   /\ req[r].candidate_id \notin candidates) =>
            /\ \A row \in votes : row.vote_id # req[r].vote_id
            /\ req[r].status # 201

\* C6: a cast_vote request (well-formed ids) received after an earlier
\* request for the same voter has returned 201 is answered 400 in its first
\* step, with "already voted" unless its SELECT raised, and that step leaves
\* votes and voters unchanged, whatever candidate it names.
C6_RecastRejected ==
    [][\A r \in Reqs :
        (/\ req[r].pc = "idle"
         /\ req'[r].pc # "idle"
         /\ req'[r].voter_id # NoId
         /\ \E q \in Reqs : /\ req[q].pc = "done"
                            /\ req[q].status = 201
                            /\ req[q].voter_id = req'[r].voter_id)
        => /\ req'[r].pc = "done"
           /\ req'[r].status = 400
           /\ req'[r].error # ErrStorage => req'[r].error = ErrAlreadyVoted
           /\ votes' = votes
           /\ voters' = voters]_vars

\* C6 happens: a request was rejected "already voted" after an earlier
\* request for the same voter, naming another candidate, had returned 201.
C6_Witness ==
    \E q \in Reqs, r \in Reqs :
        /\ q < r
        /\ req[q].pc = "done" /\ req[q].status = 201
        /\ req[r].pc = "done" /\ req[r].error = ErrAlreadyVoted
        /\ req[r].voter_id = req[q].voter_id
        /\ req[r].voter_id \in Registered
        /\ req[r].candidate_id # req[q].candidate_id

\* C7: a vote row is in votes only once the request that wrote it has had
\* its UPDATE ... SET has_voted = true applied (stated for the rows of
\* registered voters).
C7_VoteAfterTransition ==
    \A row \in votes :
        row.voter_id \in Registered =>
            req[row.vote_id].pc = "done" /\ req[row.vote_id].status = 201

\* C8: whenever get_statistics counts the rows of votes, every row it counts
\* belongs to a voter whose row has has_voted = true at that moment (stated
\* for the rows of registered voters).
C8_StatsCountsOnlyVoted ==
    [][(stats.pc = "idle" /\ stats'.pc = "voters") =>
        \A row \in votes :
            row.voter_id \in Registered => voters[row.voter_id].has_voted
      ]_vars

\* C9: when get_statistics counts the rows of votes at a quiescent point,
\* the count it takes is the number of rows of votes, and that count is the
\* total_votes of its response.
C9_TotalVotesAtQuiescence ==
    [][/\ (stats.pc = "idle" /\ stats'.pc = "voters" /\ Quiescent) =>
            stats'.total_votes = Cardinality(votes)
       /\ (stats.pc = "voters" /\ last'.op = "statistics"
                               /\ last'.status = 200) =>
            last'.total_votes = stats.total_votes]_vars

\* C9 happens: get_statistics has answered at a quiescent point at which
\* votes holds rows, two of them of one voter.
C9_Witness ==
    /\ last.op = "statistics" /\ last.status = 200
    /\ Quiescent
    /\ last.total_votes = Cardinality(votes)
    /\ \E v \in Registered : Cardinality(VotesOf(v)) = 2

C11_VotesAppendOnly ==
    [][votes \subseteq votes']_vars

\* C11 happens: a second row was inserted for a voter who already had a row
\* in votes, and both rows are there.
C11_Witness ==
    \E a \in votes, b \in votes :
        /\ a.vote_id < b.vote_id
        /\ a.voter_id = b.voter_id
        /\ req[b.vote_id].pc \in {"update", "done"}

\* The voter rows that hold the same name, email and phone as row.
SameFields(tbl, row) ==
    {w \in AllVoterIds : /\ tbl[w].present
                         /\ tbl[w].voter_name = row.voter_name
                         /\ tbl[w].email = row.email
                         /\ tbl[w].phone = row.phone}

C13_RegisterValidates ==
    \A v \in Registered :
        /\ voters[v].voter_name \notin {"", None}
        /\ voters[v].email \notin {"", None}
        /\ voters[v].phone \notin {"", None}

\* Request r has its row in votes (its INSERT, lines 166-177, was applied).
WroteVote(r) == \E row \in votes : row.vote_id = req[r].vote_id

\* Request r has been answered 400.
Failed(r) == req[r].pc = "done" /\ req[r].status = 400

\* C14: a cast_vote request that failed after one of its two writes was
\* applied is answered differently from a request that failed with nothing
\* written: the two responses do not carry the same status and error
\* (stated for a partial failure of a registered voter's request).
C14_PartialFailureDistinct ==
    \A r \in Reqs, q \in Reqs :
        (/\ Failed(r) /\ WroteVote(r) /\ req[r].voter_id \in Registered
         /\ Failed(q) /\ ~WroteVote(q))
            => req[r].error # req[q].error

\* C15: registration is never blocked by voting: in every reachable state,
\* whatever the cast_vote requests in flight, a register_voter request can
\* run and be answered 201 (as long as ids are left to mint within
\* MaxVoters).
C15_RegisterNeverBlocked ==
    FreshVoterIds # {} =>
        ENABLED (register_voter /\ last'.op = "register" /\ last'.status = 201)

\* C15 happens: register_voter has just answered 201 while a cast_vote
\* request was between its INSERT INTO votes and its UPDATE voters.
C15_Witness ==
    /\ last.op = "register" /\ last.status = 201
    /\ voters[last.voter_id].present
    /\ \E r \in Reqs : req[r].pc = "update"

\* The sum of the counts of a per-candidate tally.
RECURSIVE SumCounts(_)
SumCounts(tally) ==
    IF DOMAIN tally = {} THEN 0
    ELSE LET c == CHOOSE d \in DOMAIN tally : TRUE
         IN  tally[c] + SumCounts([d \in DOMAIN tally \ {c} |-> tally[d]])

\* C16: a get_statistics response given at a quiescent point carries
\* votes_by_candidate, and its counts sum to total_votes.
C16_VotesByCandidate ==
    (last.op = "statistics" /\ last.status = 200 /\ Quiescent) =>
        /\ "votes_by_candidate" \in DOMAIN last
        /\ SumCounts(last.votes_by_candidate) = last.total_votes

\* C17: a cast_vote request that was answered 400 has changed nothing: its
\* row is not in votes (and it has not set has_voted, which only the step
\* that answers 201 does).  Stated for the requests of registered voters.
C17_FailureChangesNothing ==
    \A r \in Reqs :
        (Failed(r) /\ req[r].voter_id \in Registered) => ~WroteVote(r)

\* C18: a cast_vote request that was answered 201 has written exactly one
\* row of votes, with its vote_id and the voter_id and candidate_id of the
\* request, and the row of its voter has has_voted = true.
C18_SuccessWroteVote ==
    \A r \in Reqs :
        (req[r].pc = "done" /\ req[r].status = 201) =>
            /\ {row \in votes : row.vote_id = req[r].vote_id}
                  = {[vote_id |-> req[r].vote_id,
                      voter_id |-> req[r].voter_id,
                      candidate_id |-> req[r].candidate_id]}
            /\ voters[req[r].voter_id].present
            /\ voters[req[r].voter_id].has_voted

\* C18 happens: a cast_vote request of a registered voter was answered 201
\* while the other request, for another voter_id, was answered 201 as well.
C18_Witness ==
    \E r \in Reqs, q \in Reqs :
        /\ req[r].pc = "done" /\ req[r].status = 201
        /\ req[r].voter_id \in Registered
        /\ req[q].pc = "done" /\ req[q].status = 201
        /\ req[q].voter_id # req[r].voter_id

\* C19: voter rows are created only by register_voter: a row appears in
\* voters only in a step in which register_voter answers 201 with its id
\* (no step of cast_vote, its UPDATE included, creates one).
C19_RowsOnlyByRegister ==
    [][\A v \in AllVoterIds :
        (~voters[v].present /\ voters'[v].present)
            => (last'.op = "register" /\ last'.status = 201
                                      /\ last'.voter_id = v)]_vars

====
